---- MODULE Spec2Model ----
(***************************************************************************)
(* Bounding-box consolidation of OCR text annotations                      *)
(* (workers/banner/src/banner/bounding_boxes.py, src/banner/models.py).    *)
(*                                                                         *)
(* Numbers.  The source computes in floating point; the model computes in  *)
(* exact integer arithmetic on a domain where that is possible:            *)
(*   - vertices have integer coordinates;                                  *)
(*   - the edge from vertex 0 to vertex 1 is parallel to an axis, so the   *)
(*     rotation angle is 0, 90, 180 or -90 degrees and cos/sin are in      *)
(*     {-1, 0, 1};                                                         *)
(*   - the four edge lengths are integers (sqrt is exact);                 *)
(*   - polygons are convex; every input has positive area but one, AnnZ,  *)
(*     whose height is zero.                                              *)
(* Quantities the source divides are kept multiplied out: center is kept   *)
(* times 4, dimensions times 2, area times 4.  Every comparison of the     *)
(* source is made on both sides multiplied by the same positive factor.    *)
(* An operator applied outside the domain stops the check with an error    *)
(* instead of returning a value.                                           *)
(***************************************************************************)
EXTENDS Integers, Sequences, FiniteSets, TLC

VARIABLES
  point_heap,   \* the Point objects: object id -> <<x, y>>
  ann_heap,     \* the TextAnnotation objects (each with its BoundingBox):
                \*   object id -> [description, bounding_poly: 4 Point ids]
  list_heap,    \* the list objects: object id -> sequence of annotation ids
  clean_annotations,   \* clean_text_annotations: the list its variable
                       \*   `annotations` is bound to
  annotations,  \* merge_boxes_with_criteria: the list its local variable
                \*   `annotations` is bound to
  pc,           \* where clean_text_annotations is: "pass1", "pass2", "returned"
  i, j,         \* the loop variables of merge_boxes_with_criteria
  call,         \* the number of the current call of clean_text_annotations
  results,      \* the list each finished call returned
  raw,          \* history: the value of the caller's list before the first call
  log           \* history: the merges made, <<call, predicate, i, j>>

vars == <<point_heap, ann_heap, list_heap, clean_annotations,
          annotations, pc, i, j, call, results, raw, log>>

\* ---------------------------------------------------------------- helpers
Abs(x) == IF x < 0 THEN -x ELSE x
Min2(a, b) == IF a <= b THEN a ELSE b
Max2(a, b) == IF a >= b THEN a ELSE b
SetMin(S) == CHOOSE m \in S : \A e \in S : m <= e
SetMax(S) == CHOOSE m \in S : \A e \in S : m >= e
Range(s) == {s[k] : k \in DOMAIN s}

RECURSIVE Euclid(_, _)
Euclid(a, b) == IF b = 0 THEN a ELSE Euclid(b, a % b)
GCD(a, b) == Euclid(Abs(a), Abs(b))

RECURSIVE SqrtSearch(_, _, _)
SqrtSearch(n, lo, hi) ==
  IF lo >= hi THEN lo
  ELSE LET mid == (lo + hi + 1) \div 2
       IN  IF mid * mid <= n THEN SqrtSearch(n, mid, hi)
                             ELSE SqrtSearch(n, lo, mid - 1)

\* math.sqrt on the model's domain: defined on perfect squares only.
sqrt(n) == CHOOSE r \in {SqrtSearch(n, 0, 46340)} : r * r = n

\* n / 4, for a number the model keeps times 4 (exact on the domain).
Quarter(n) == CHOOSE v \in {n \div 4} : 4 * v = n

\* math.atan2(dy, dx) in degrees, for a direction parallel to an axis.
atan2(dy, dx) ==
  CASE dy = 0 /\ dx >= 0 -> 0
    [] dy = 0 /\ dx < 0  -> 180
    [] dx = 0 /\ dy > 0  -> 90
    [] dx = 0 /\ dy < 0  -> -90

\* math.cos / math.sin of a multiple of 90 degrees.
cos(deg) ==
  CASE deg % 360 = 0   -> 1
    [] deg % 360 = 90  -> 0
    [] deg % 360 = 180 -> -1
    [] deg % 360 = 270 -> 0
sin(deg) ==
  CASE deg % 360 = 0   -> 0
    [] deg % 360 = 90  -> 1
    [] deg % 360 = 180 -> 0
    [] deg % 360 = 270 -> -1

\* ------------------------------------------------------------- models.py
\* A Point is <<x, y>>; a BoundingBox is the sequence of its four vertices;
\* a TextAnnotation is [description |-> string, bounding_poly |-> box].
Next4(k) == (k % 4) + 1

\* BoundingBox.center, times 4.
center4(box) ==
  << box[1][1] + box[2][1] + box[3][1] + box[4][1],
     box[1][2] + box[2][2] + box[3][2] + box[4][2] >>

\* BoundingBox.angle, in degrees.
angle(box) == atan2(box[2][2] - box[1][2], box[2][1] - box[1][1])

\* The four edge lengths (distances in BoundingBox.dimensions).
distances(box) ==
  [k \in 1..4 |->
     LET dx == box[Next4(k)][1] - box[k][1]
         dy == box[Next4(k)][2] - box[k][2]
     IN  sqrt(dx * dx + dy * dy)]

\* BoundingBox.dimensions, (width, height) times 2.
dimensions2(box) ==
  LET d == distances(box) IN << d[1] + d[3], d[2] + d[4] >>

\* BoundingBox.area, times 4.
area4(box) == dimensions2(box)[1] * dimensions2(box)[2]

\* --------------------------------------------- shapely (library semantics)
\* BoundingBox.to_shapely_polygon with expand_px = 0: the polygon of the four
\* vertices, in their order.
to_shapely_polygon(box) == box

\* Twice the signed area of a polygon with integer vertices (shoelace sum).
Shoelace2(poly) ==
  LET n == Len(poly)
      term(k) == poly[k][1] * poly[(k % n) + 1][2]
                 - poly[(k % n) + 1][1] * poly[k][2]
      RECURSIVE Sum(_)
      Sum(k) == IF k > n THEN 0 ELSE term(k) + Sum(k + 1)
  IN  Sum(1)

\* Polygon.area, times 2.
PolygonArea2(poly) == Abs(Shoelace2(poly))

\* The scalar projections of a polygon's vertices on the normal of the edge
\* from a to b.
Projections(poly, a, b) ==
  {(b[2] - a[2]) * poly[k][1] - (b[1] - a[1]) * poly[k][2] : k \in DOMAIN poly}

\* The edge of poly that starts at vertex k separates poly from other.
Separates(poly, other, k) ==
  LET a == poly[k]
      b == poly[Next4(k)]
      pa == Projections(poly, a, b)
      pb == Projections(other, a, b)
  IN  SetMax(pa) < SetMin(pb) \/ SetMax(pb) < SetMin(pa)

\* Polygon.intersects for two convex polygons (closed sets: touching
\* polygons intersect): no edge of either is a separating axis.
Intersects(poly1, poly2) ==
  /\ \A k \in 1..4 : ~Separates(poly1, poly2, k)
  /\ \A k \in 1..4 : ~Separates(poly2, poly1, k)

\* A point with rational coordinates is <<X, Y, D>>: (X / D, Y / D), D > 0.
Rat(p) == <<p[1], p[2], 1>>
NormPoint(X, Y, D) ==
  LET g == GCD(GCD(X, Y), D)
      sg == IF D < 0 THEN -g ELSE g
  IN  <<X \div sg, Y \div sg, D \div sg>>

\* cross(b - a, p - a) times the denominator of p.
Side(a, b, p) ==
  (b[1] - a[1]) * (p[2] - a[2] * p[3]) - (b[2] - a[2]) * (p[1] - a[1] * p[3])

\* The point where the segment from p to q meets the line through a and b.
Meet(a, b, p, q) ==
  LET cp == Side(a, b, p)
      cq == Side(a, b, q)
  IN  NormPoint(cp * q[1] - cq * p[1], cp * q[2] - cq * p[2],
                cp * q[3] - cq * p[3])

\* One step of convex clipping: the part of subj on the inner side of the
\* line through a and b (s is the orientation sign of the clip polygon).
ClipEdge(subj, a, b, s) ==
  LET n == Len(subj)
      In(p) == s * Side(a, b, p) >= 0
      piece(k) ==
        LET cur == subj[k]
            prev == subj[IF k = 1 THEN n ELSE k - 1]
        IN  IF In(cur)
            THEN IF In(prev) THEN <<cur>> ELSE <<Meet(a, b, prev, cur), cur>>
            ELSE IF In(prev) THEN <<Meet(a, b, prev, cur)>> ELSE <<>>
      RECURSIVE From(_)
      From(k) == IF k > n THEN <<>> ELSE piece(k) \o From(k + 1)
  IN  From(1)

RECURSIVE ClipAll(_, _, _, _)
ClipAll(subj, clip, s, k) ==
  IF k > 4 \/ subj = <<>> THEN subj
  ELSE ClipAll(ClipEdge(subj, clip[k], clip[Next4(k)], s), clip, s, k + 1)

\* A fraction is <<numerator, denominator>>, denominator > 0, in lowest terms.
Frac(n, d) ==
  LET g == GCD(n, d)
      sg == IF d < 0 THEN -g ELSE g
  IN  <<n \div sg, d \div sg>>
FracAdd(f, h) == Frac(f[1] * h[2] + h[1] * f[2], f[2] * h[2])

\* Twice the area of a polygon with rational vertices, as a fraction.
RatArea2(poly) ==
  LET n == Len(poly)
      term(k) ==
        LET p == poly[k]
            q == poly[(k % n) + 1]
        IN  Frac(p[1] * q[2] - q[1] * p[2], p[3] * q[3])
      RECURSIVE Sum(_)
      Sum(k) == IF k > n THEN <<0, 1>> ELSE FracAdd(term(k), Sum(k + 1))
      total == IF n = 0 THEN <<0, 1>> ELSE Sum(1)
  IN  <<Abs(total[1]), total[2]>>

\* polygon1.intersection(polygon2).area for two convex polygons, times 2, as
\* a fraction.
IntersectionArea2(poly1, poly2) ==
  LET s == IF Shoelace2(poly2) >= 0 THEN 1 ELSE -1
      subj == [k \in 1..4 |-> Rat(poly1[k])]
  IN  RatArea2(ClipAll(subj, poly2, s, 1))

\* ------------------------------------- matplotlib.path (library semantics)
\* The grid resolution of calculate_iou (np.linspace(..., 100)).
GRID == 100

\* Path.contains_points, for one point: the crossing test over the edges of
\* the closed path.  tx, ty and the vertex coordinates v are compared as
\* tx, ty against (GRID - 1) * v, the grid points being kept multiplied by
\* GRID - 1; the polygon's vertices are integers.
Crosses(poly, k, tx, ty) ==
  LET m == GRID - 1
      vtx0 == m * poly[k][1]
      vty0 == m * poly[k][2]
      vtx1 == m * poly[Next4(k)][1]
      vty1 == m * poly[Next4(k)][2]
      yflag0 == vty0 >= ty
      yflag1 == vty1 >= ty
  IN  /\ yflag0 # yflag1
      /\ ((vty1 - ty) * (poly[k][1] - poly[Next4(k)][1])
            >= (vtx1 - tx) * (poly[k][2] - poly[Next4(k)][2])) = yflag1
contains_point(poly, tx, ty) ==
  Cardinality({k \in 1..4 : Crosses(poly, k, tx, ty)}) % 2 = 1

\* ------------------------------------------------------ bounding_boxes.py
Xs(box) == {box[k][1] : k \in 1..4}
Ys(box) == {box[k][2] : k \in 1..4}
Xs8(pts) == {pts[k][1] : k \in DOMAIN pts}
Ys8(pts) == {pts[k][2] : k \in DOMAIN pts}

\* A variant of calculate_iou that divides by the number of all grid points.
calculate_iou_over_grid(box1, box2) ==
  LET poly1 == box1
      poly2 == box2
      x_min == Min2(SetMin(Xs(box1)), SetMin(Xs(box2)))
      x_max == Max2(SetMax(Xs(box1)), SetMax(Xs(box2)))
      y_min == Min2(SetMin(Ys(box1)), SetMin(Ys(box2)))
      y_max == Max2(SetMax(Ys(box1)), SetMax(Ys(box2)))
      x(k) == (GRID - 1) * x_min + k * (x_max - x_min)
      y(k) == (GRID - 1) * y_min + k * (y_max - y_min)
      points == (0 .. GRID - 1) \X (0 .. GRID - 1)
      mask1 == {p \in points : contains_point(poly1, x(p[1]), y(p[2]))}
      mask2 == {p \in points : contains_point(poly2, x(p[1]), y(p[2]))}
  IN  <<Cardinality(mask1 \cap mask2), Cardinality(points)>>

\* A variant of calculate_iou that divides by the number of grid points in
\* the first box instead of the number in either box.
calculate_iou_over_first(box1, box2) ==
  LET poly1 == box1
      poly2 == box2
      x_min == Min2(SetMin(Xs(box1)), SetMin(Xs(box2)))
      x_max == Max2(SetMax(Xs(box1)), SetMax(Xs(box2)))
      y_min == Min2(SetMin(Ys(box1)), SetMin(Ys(box2)))
      y_max == Max2(SetMax(Ys(box1)), SetMax(Ys(box2)))
      x(k) == (GRID - 1) * x_min + k * (x_max - x_min)
      y(k) == (GRID - 1) * y_min + k * (y_max - y_min)
      points == (0 .. GRID - 1) \X (0 .. GRID - 1)
      mask1 == {p \in points : contains_point(poly1, x(p[1]), y(p[2]))}
      mask2 == {p \in points : contains_point(poly2, x(p[1]), y(p[2]))}
  IN  <<Cardinality(mask1 \cap mask2), Cardinality(mask1)>>

\* calculate_iou: <<intersection, union>>, the two counts of grid points; the
\* source returns intersection / union, and 0 when union is 0.
calculate_iou(box1, box2) ==
  LET poly1 == box1
      poly2 == box2
      x_min == Min2(SetMin(Xs(box1)), SetMin(Xs(box2)))
      x_max == Max2(SetMax(Xs(box1)), SetMax(Xs(box2)))
      y_min == Min2(SetMin(Ys(box1)), SetMin(Ys(box2)))
      y_max == Max2(SetMax(Ys(box1)), SetMax(Ys(box2)))
      x(k) == (GRID - 1) * x_min + k * (x_max - x_min)
      y(k) == (GRID - 1) * y_min + k * (y_max - y_min)
      points == (0 .. GRID - 1) \X (0 .. GRID - 1)
      mask1 == {p \in points : contains_point(poly1, x(p[1]), y(p[2]))}
      mask2 == {p \in points : contains_point(poly2, x(p[1]), y(p[2]))}
  IN  <<Cardinality(mask1 \cap mask2), Cardinality(mask1 \cup mask2)>>

\* iou > 0.5 for the pair of counts calculate_iou returns.
IouAboveHalf(iou) == iou[2] > 0 /\ 2 * iou[1] > iou[2]

\* The angle gate shared by both predicates: the normalised difference of
\* the two angles exceeds 5 degrees.
AngleGateFails(box1, box2) ==
  LET d == Abs(angle(box1) - angle(box2))
      angle_diff == Min2(d, 360 - d)
  IN  angle_diff > 5

\* A variant of boxes_overlap without the test of the vertical displacement
\* of the centers.
boxes_overlap_any_height(box1, box2) ==
  IF AngleGateFails(box1, box2) THEN FALSE
  ELSE Intersects(to_shapely_polygon(box1), to_shapely_polygon(box2))

boxes_overlap(box1, box2) ==
  IF AngleGateFails(box1, box2) THEN FALSE
  ELSE
    LET reference_angle == (angle(box1) + angle(box2)) \div 2
        cos_angle == cos(-reference_angle)
        sin_angle == sin(-reference_angle)
        center1 == center4(box1)
        center2 == center4(box2)
        x2_centered == center2[1] - center1[1]
        y2_centered == center2[2] - center1[2]
        y2_rotated == x2_centered * sin_angle + y2_centered * cos_angle
        y_center_diff4 == Abs(y2_rotated)
        height1 == dimensions2(box1)[2]
        height2 == dimensions2(box2)[2]
        \* min(height1, height2) / 2, times 4
        max_allowed_diff4 == Min2(height1, height2)
    IN  IF y_center_diff4 > max_allowed_diff4 THEN FALSE
        ELSE Intersects(to_shapely_polygon(box1), to_shapely_polygon(box2))

\* rotate_points of boxes_vertically_aligned and the rotation loop of
\* merge_boxes: the vertices about a center, by an angle; all times 4.
rotate_points(vertices, center, cos_angle, sin_angle) ==
  [k \in DOMAIN vertices |->
     LET x_centered == 4 * vertices[k][1] - center[1]
         y_centered == 4 * vertices[k][2] - center[2]
     IN  << x_centered * cos_angle - y_centered * sin_angle,
            x_centered * sin_angle + y_centered * cos_angle >>]

\* Two variants of boxes_vertically_aligned: one without the angle gate, one
\* without the test of the vertical overlap.
boxes_vertically_aligned_ungated(box1, box2) ==
    LET reference_angle == angle(box1)
        cos_angle == cos(-reference_angle)
        sin_angle == sin(-reference_angle)
        rotated_box1 == rotate_points(box1, center4(box1), cos_angle, sin_angle)
        rotated_box2 == rotate_points(box2, center4(box1), cos_angle, sin_angle)
        box1_min_y == SetMin(Ys(rotated_box1))
        box1_max_y == SetMax(Ys(rotated_box1))
        box2_min_y == SetMin(Ys(rotated_box2))
        box2_max_y == SetMax(Ys(rotated_box2))
        box1_min_x == SetMin(Xs(rotated_box1))
        box1_max_x == SetMax(Xs(rotated_box1))
        box2_min_x == SetMin(Xs(rotated_box2))
        box2_max_x == SetMax(Xs(rotated_box2))
        box1_height == box1_max_y - box1_min_y
        box2_height == box2_max_y - box2_min_y
        y_overlap == Min2(box1_max_y, box2_max_y) - Max2(box1_min_y, box2_min_y)
        h_distance == IF box1_max_x < box2_min_x THEN box2_min_x - box1_max_x
                      ELSE IF box2_max_x < box1_min_x THEN box1_min_x - box2_max_x
                      ELSE 0
    IN  IF 2 * y_overlap < Min2(box1_height, box2_height) THEN FALSE
        ELSE 4 * h_distance < box1_height + box2_height
boxes_vertically_aligned_any_line(box1, box2) ==
  IF AngleGateFails(box1, box2) THEN FALSE
  ELSE
    LET reference_angle == angle(box1)
        cos_angle == cos(-reference_angle)
        sin_angle == sin(-reference_angle)
        rotated_box1 == rotate_points(box1, center4(box1), cos_angle, sin_angle)
        rotated_box2 == rotate_points(box2, center4(box1), cos_angle, sin_angle)
        box1_min_y == SetMin(Ys(rotated_box1))
        box1_max_y == SetMax(Ys(rotated_box1))
        box2_min_y == SetMin(Ys(rotated_box2))
        box2_max_y == SetMax(Ys(rotated_box2))
        box1_min_x == SetMin(Xs(rotated_box1))
        box1_max_x == SetMax(Xs(rotated_box1))
        box2_min_x == SetMin(Xs(rotated_box2))
        box2_max_x == SetMax(Xs(rotated_box2))
        box1_height == box1_max_y - box1_min_y
        box2_height == box2_max_y - box2_min_y
        y_overlap == Min2(box1_max_y, box2_max_y) - Max2(box1_min_y, box2_min_y)
        h_distance == IF box1_max_x < box2_min_x THEN box2_min_x - box1_max_x
                      ELSE IF box2_max_x < box1_min_x THEN box1_min_x - box2_max_x
                      ELSE 0
    IN  4 * h_distance < box1_height + box2_height

\* Two more variants of boxes_vertically_aligned: one that accepts a gap
\* equal to half the average height, one that compares the gap with half the
\* first box's height.
boxes_vertically_aligned_inclusive(box1, box2) ==
  IF AngleGateFails(box1, box2) THEN FALSE
  ELSE
    LET reference_angle == angle(box1)
        cos_angle == cos(-reference_angle)
        sin_angle == sin(-reference_angle)
        rotated_box1 == rotate_points(box1, center4(box1), cos_angle, sin_angle)
        rotated_box2 == rotate_points(box2, center4(box1), cos_angle, sin_angle)
        box1_min_y == SetMin(Ys(rotated_box1))
        box1_max_y == SetMax(Ys(rotated_box1))
        box2_min_y == SetMin(Ys(rotated_box2))
        box2_max_y == SetMax(Ys(rotated_box2))
        box1_min_x == SetMin(Xs(rotated_box1))
        box1_max_x == SetMax(Xs(rotated_box1))
        box2_min_x == SetMin(Xs(rotated_box2))
        box2_max_x == SetMax(Xs(rotated_box2))
        box1_height == box1_max_y - box1_min_y
        box2_height == box2_max_y - box2_min_y
        y_overlap == Min2(box1_max_y, box2_max_y) - Max2(box1_min_y, box2_min_y)
        h_distance == IF box1_max_x < box2_min_x THEN box2_min_x - box1_max_x
                      ELSE IF box2_max_x < box1_min_x THEN box1_min_x - box2_max_x
                      ELSE 0
    IN  IF 2 * y_overlap < Min2(box1_height, box2_height) THEN FALSE
        ELSE 4 * h_distance <= box1_height + box2_height
boxes_vertically_aligned_first_height(box1, box2) ==
  IF AngleGateFails(box1, box2) THEN FALSE
  ELSE
    LET reference_angle == angle(box1)
        cos_angle == cos(-reference_angle)
        sin_angle == sin(-reference_angle)
        rotated_box1 == rotate_points(box1, center4(box1), cos_angle, sin_angle)
        rotated_box2 == rotate_points(box2, center4(box1), cos_angle, sin_angle)
        box1_min_y == SetMin(Ys(rotated_box1))
        box1_max_y == SetMax(Ys(rotated_box1))
        box2_min_y == SetMin(Ys(rotated_box2))
        box2_max_y == SetMax(Ys(rotated_box2))
        box1_min_x == SetMin(Xs(rotated_box1))
        box1_max_x == SetMax(Xs(rotated_box1))
        box2_min_x == SetMin(Xs(rotated_box2))
        box2_max_x == SetMax(Xs(rotated_box2))
        box1_height == box1_max_y - box1_min_y
        box2_height == box2_max_y - box2_min_y
        y_overlap == Min2(box1_max_y, box2_max_y) - Max2(box1_min_y, box2_min_y)
        h_distance == IF box1_max_x < box2_min_x THEN box2_min_x - box1_max_x
                      ELSE IF box2_max_x < box1_min_x THEN box1_min_x - box2_max_x
                      ELSE 0
    IN  IF 2 * y_overlap < Min2(box1_height, box2_height) THEN FALSE
        ELSE 2 * h_distance < box1_height

boxes_vertically_aligned(box1, box2) ==
  IF AngleGateFails(box1, box2) THEN FALSE
  ELSE
    LET reference_angle == angle(box1)
        cos_angle == cos(-reference_angle)
        sin_angle == sin(-reference_angle)
        rotated_box1 == rotate_points(box1, center4(box1), cos_angle, sin_angle)
        rotated_box2 == rotate_points(box2, center4(box1), cos_angle, sin_angle)
        box1_min_y == SetMin(Ys(rotated_box1))
        box1_max_y == SetMax(Ys(rotated_box1))
        box2_min_y == SetMin(Ys(rotated_box2))
        box2_max_y == SetMax(Ys(rotated_box2))
        box1_min_x == SetMin(Xs(rotated_box1))
        box1_max_x == SetMax(Xs(rotated_box1))
        box2_min_x == SetMin(Xs(rotated_box2))
        box2_max_x == SetMax(Xs(rotated_box2))
        box1_height == box1_max_y - box1_min_y
        box2_height == box2_max_y - box2_min_y
        y_overlap == Min2(box1_max_y, box2_max_y) - Max2(box1_min_y, box2_min_y)
        h_distance == IF box1_max_x < box2_min_x THEN box2_min_x - box1_max_x
                      ELSE IF box2_max_x < box1_min_x THEN box1_min_x - box2_max_x
                      ELSE 0
    IN  \* y_overlap < min(box1_height, box2_height) * 0.5
        IF 2 * y_overlap < Min2(box1_height, box2_height) THEN FALSE
        \* h_distance < avg_height / 2, avg_height = (h1 + h2) / 2
        ELSE 4 * h_distance < box1_height + box2_height

\* A variant of the containment ratio without the test of the denominator.
ContainmentUnguarded(inter2, poly) ==
  <<inter2[1], inter2[2] * PolygonArea2(poly)>>

\* containment = intersection_area / polygon.area if polygon.area > 0 else 0,
\* as the fraction <<numerator, denominator>>; inter2 is twice the
\* intersection area, a fraction.  A denominator of 0 is a division by zero,
\* which raises ZeroDivisionError.
Containment(inter2, poly) ==
  IF PolygonArea2(poly) > 0
  THEN <<inter2[1], inter2[2] * PolygonArea2(poly)>>
  ELSE <<0, 1>>

\* containment > 0.95.
ContainmentAbove95(inter2, poly) ==
  LET containment == Containment(inter2, poly)
  IN  /\ containment[2] > 0
      /\ 20 * containment[1] > 19 * containment[2]

\* merge_boxes raises: one of its two divisions divides by zero.
MergeBoxesRaises(ann1, ann2) ==
  LET polygon1 == to_shapely_polygon(ann1.bounding_poly)
      polygon2 == to_shapely_polygon(ann2.bounding_poly)
      intersection_area == IntersectionArea2(polygon1, polygon2)
  IN  \/ Containment(intersection_area, polygon1)[2] = 0
      \/ Containment(intersection_area, polygon2)[2] = 0

\* A variant of the description rules that always keeps the longer of the
\* two descriptions (the first on a tie), whatever the geometry.
MergedDescriptionByLength(ann1, ann2) ==
  IF Len(ann1.description) >= Len(ann2.description)
  THEN ann1.description ELSE ann2.description

\* A variant of the description rules that decides the IoU rule before the
\* containment rule.
MergedDescriptionIouFirst(ann1, ann2) ==
  LET box1 == ann1.bounding_poly
      box2 == ann2.bounding_poly
      iou == calculate_iou(box1, box2)
      polygon1 == to_shapely_polygon(box1)
      polygon2 == to_shapely_polygon(box2)
      intersection_area == IntersectionArea2(polygon1, polygon2)
  IN  IF IouAboveHalf(iou)
      THEN IF Len(ann1.description) >= Len(ann2.description)
           THEN ann1.description ELSE ann2.description
      ELSE IF \/ ContainmentAbove95(intersection_area, polygon1)
              \/ ContainmentAbove95(intersection_area, polygon2)
      THEN IF area4(box1) >= area4(box2) THEN ann1.description
                                         ELSE ann2.description
      ELSE IF center4(box1)[1] <= center4(box2)[1]
           THEN ann1.description \o " " \o ann2.description
           ELSE ann2.description \o " " \o ann1.description

\* A variant of the description rules without the IoU rule: the two
\* descriptions are joined whenever neither box is contained in the other.
MergedDescriptionNoIou(ann1, ann2) ==
  LET box1 == ann1.bounding_poly
      box2 == ann2.bounding_poly
      polygon1 == to_shapely_polygon(box1)
      polygon2 == to_shapely_polygon(box2)
      intersection_area == IntersectionArea2(polygon1, polygon2)
  IN  IF \/ ContainmentAbove95(intersection_area, polygon1)
         \/ ContainmentAbove95(intersection_area, polygon2)
      THEN IF area4(box1) >= area4(box2) THEN ann1.description
                                         ELSE ann2.description
      ELSE IF center4(box1)[1] <= center4(box2)[1]
           THEN ann1.description \o " " \o ann2.description
           ELSE ann2.description \o " " \o ann1.description

\* A variant of the description rules that joins the descriptions in the
\* order of the operands, whatever the centers are.
MergedDescriptionOperandOrder(ann1, ann2) ==
  LET box1 == ann1.bounding_poly
      box2 == ann2.bounding_poly
      iou == calculate_iou(box1, box2)
      polygon1 == to_shapely_polygon(box1)
      polygon2 == to_shapely_polygon(box2)
      intersection_area == IntersectionArea2(polygon1, polygon2)
  IN  IF \/ ContainmentAbove95(intersection_area, polygon1)
         \/ ContainmentAbove95(intersection_area, polygon2)
      THEN IF area4(box1) >= area4(box2) THEN ann1.description
                                         ELSE ann2.description
      ELSE IF IouAboveHalf(iou)
      THEN IF Len(ann1.description) >= Len(ann2.description)
           THEN ann1.description ELSE ann2.description
      ELSE ann1.description \o " " \o ann2.description

\* A variant of the description rules whose last rule leaves the description
\* empty instead of joining the two.
MergedDescriptionUnjoined(ann1, ann2) ==
  LET box1 == ann1.bounding_poly
      box2 == ann2.bounding_poly
      iou == calculate_iou(box1, box2)
      polygon1 == to_shapely_polygon(box1)
      polygon2 == to_shapely_polygon(box2)
      intersection_area == IntersectionArea2(polygon1, polygon2)
  IN  IF \/ ContainmentAbove95(intersection_area, polygon1)
         \/ ContainmentAbove95(intersection_area, polygon2)
      THEN IF area4(box1) >= area4(box2) THEN ann1.description
                                         ELSE ann2.description
      ELSE IF IouAboveHalf(iou)
      THEN IF Len(ann1.description) >= Len(ann2.description)
           THEN ann1.description ELSE ann2.description
      ELSE ""

\* merge_boxes: the description of the merged annotation.
MergedDescription(ann1, ann2) ==
  LET box1 == ann1.bounding_poly
      box2 == ann2.bounding_poly
      iou == calculate_iou(box1, box2)
      polygon1 == to_shapely_polygon(box1)
      polygon2 == to_shapely_polygon(box2)
      intersection_area == IntersectionArea2(polygon1, polygon2)
  IN  IF \/ ContainmentAbove95(intersection_area, polygon1)
         \/ ContainmentAbove95(intersection_area, polygon2)
      THEN IF area4(box1) >= area4(box2) THEN ann1.description
                                         ELSE ann2.description
      ELSE IF IouAboveHalf(iou)
      THEN IF Len(ann1.description) >= Len(ann2.description)
           THEN ann1.description ELSE ann2.description
      ELSE IF center4(box1)[1] <= center4(box2)[1]
           THEN ann1.description \o " " \o ann2.description
           ELSE ann2.description \o " " \o ann1.description

\* A variant of the merged box that bounds the first operand's vertices only.
MergedVerticesFirstOnly(box1, box2) ==
  LET merged_angle == IF area4(box1) >= area4(box2) THEN angle(box1)
                                                    ELSE angle(box2)
      all_vertices == box1
      cos_angle == cos(-merged_angle)
      sin_angle == sin(-merged_angle)
      rotated_points == rotate_points(all_vertices, center4(box1),
                                      cos_angle, sin_angle)
      x_min_rot == SetMin(Xs8(rotated_points))
      x_max_rot == SetMax(Xs8(rotated_points))
      y_min_rot == SetMin(Ys8(rotated_points))
      y_max_rot == SetMax(Ys8(rotated_points))
      corners_rot == << <<x_min_rot, y_min_rot>>, <<x_max_rot, y_min_rot>>,
                        <<x_max_rot, y_max_rot>>, <<x_min_rot, y_max_rot>> >>
      merged_center == center4(box1)
  IN  [k \in 1..4 |->
         LET x_rot == corners_rot[k][1]
             y_rot == corners_rot[k][2]
             x_orig == x_rot * cos_angle + y_rot * sin_angle
             y_orig == (-x_rot) * sin_angle + y_rot * cos_angle
         IN  << Quarter(x_orig + merged_center[1]),
                Quarter(y_orig + merged_center[2]) >>]

\* A variant of the merged box that always takes the first operand's angle.
MergedVerticesFirstAngle(box1, box2) ==
  LET merged_angle == angle(box1)
      all_vertices == box1 \o box2
      cos_angle == cos(-merged_angle)
      sin_angle == sin(-merged_angle)
      rotated_points == rotate_points(all_vertices, center4(box1),
                                      cos_angle, sin_angle)
      x_min_rot == SetMin(Xs8(rotated_points))
      x_max_rot == SetMax(Xs8(rotated_points))
      y_min_rot == SetMin(Ys8(rotated_points))
      y_max_rot == SetMax(Ys8(rotated_points))
      corners_rot == << <<x_min_rot, y_min_rot>>, <<x_max_rot, y_min_rot>>,
                        <<x_max_rot, y_max_rot>>, <<x_min_rot, y_max_rot>> >>
      merged_center == center4(box1)
  IN  [k \in 1..4 |->
         LET x_rot == corners_rot[k][1]
             y_rot == corners_rot[k][2]
             x_orig == x_rot * cos_angle + y_rot * sin_angle
             y_orig == (-x_rot) * sin_angle + y_rot * cos_angle
         IN  << Quarter(x_orig + merged_center[1]),
                Quarter(y_orig + merged_center[2]) >>]

\* A variant of the merged box that bounds the second operand only.
MergedVerticesSecondOnly(box1, box2) ==
  LET merged_angle == IF area4(box1) >= area4(box2) THEN angle(box1)
                                                    ELSE angle(box2)
      all_vertices == box2 \o box2
      cos_angle == cos(-merged_angle)
      sin_angle == sin(-merged_angle)
      rotated_points == rotate_points(all_vertices, center4(box1),
                                      cos_angle, sin_angle)
      x_min_rot == SetMin(Xs8(rotated_points))
      x_max_rot == SetMax(Xs8(rotated_points))
      y_min_rot == SetMin(Ys8(rotated_points))
      y_max_rot == SetMax(Ys8(rotated_points))
      corners_rot == << <<x_min_rot, y_min_rot>>, <<x_max_rot, y_min_rot>>,
                        <<x_max_rot, y_max_rot>>, <<x_min_rot, y_max_rot>> >>
      merged_center == center4(box1)
  IN  [k \in 1..4 |->
         LET x_rot == corners_rot[k][1]
             y_rot == corners_rot[k][2]
             x_orig == x_rot * cos_angle + y_rot * sin_angle
             y_orig == (-x_rot) * sin_angle + y_rot * cos_angle
         IN  << Quarter(x_orig + merged_center[1]),
                Quarter(y_orig + merged_center[2]) >>]

\* merge_boxes: the four vertices of the merged box.
MergedVertices(box1, box2) ==
  LET merged_angle == IF area4(box1) >= area4(box2) THEN angle(box1)
                                                    ELSE angle(box2)
      all_vertices == box1 \o box2
      cos_angle == cos(-merged_angle)
      sin_angle == sin(-merged_angle)
      rotated_points == rotate_points(all_vertices, center4(box1),
                                      cos_angle, sin_angle)
      x_min_rot == SetMin(Xs8(rotated_points))
      x_max_rot == SetMax(Xs8(rotated_points))
      y_min_rot == SetMin(Ys8(rotated_points))
      y_max_rot == SetMax(Ys8(rotated_points))
      corners_rot == << <<x_min_rot, y_min_rot>>, <<x_max_rot, y_min_rot>>,
                        <<x_max_rot, y_max_rot>>, <<x_min_rot, y_max_rot>> >>
      merged_center == center4(box1)
  IN  [k \in 1..4 |->
         LET x_rot == corners_rot[k][1]
             y_rot == corners_rot[k][2]
             x_orig == x_rot * cos_angle + y_rot * sin_angle
             y_orig == (-x_rot) * sin_angle + y_rot * cos_angle
         IN  << Quarter(x_orig + merged_center[1]),
                Quarter(y_orig + merged_center[2]) >>]

merge_boxes(ann1, ann2) ==
  [description |-> MergedDescription(ann1, ann2),
   bounding_poly |-> MergedVertices(ann1.bounding_poly, ann2.bounding_poly)]

\* The predicate a pass of the loop is run with (merge_criteria).
Criteria(merge_criteria, box1, box2) ==
  IF merge_criteria = "boxes_overlap" THEN boxes_overlap(box1, box2)
  ELSE boxes_vertically_aligned(box1, box2)

\* Two variants of the rebuilt list: one that leaves annotations[j] in the
\* list, one that puts the merged annotation where annotations[i] was.
SpliceKeepJ(list, ii, jj, merged_annotation) ==
  SubSeq(list, 1, ii) \o SubSeq(list, ii + 2, Len(list))
    \o <<merged_annotation>>
SpliceInPlace(list, ii, jj, merged_annotation) ==
  SubSeq(list, 1, ii) \o <<merged_annotation>> \o SubSeq(list, ii + 2, jj)
    \o SubSeq(list, jj + 2, Len(list))

\* A variant of the rebuilt list without the merged annotation.
SpliceWithoutMerged(list, ii, jj, merged_annotation) ==
  SubSeq(list, 1, ii) \o SubSeq(list, ii + 2, jj)
    \o SubSeq(list, jj + 2, Len(list))

\* annotations[:i] + annotations[i + 1 : j] + annotations[j + 1 :]
\*   + [merged_annotation], ii and jj being i and j, counted from 0 as in
\* the source.
Splice(list, ii, jj, merged_annotation) ==
  SubSeq(list, 1, ii) \o SubSeq(list, ii + 2, jj)
    \o SubSeq(list, jj + 2, Len(list)) \o <<merged_annotation>>

\* The pairs (i, j), i < j, counted from 0, of a list of annotation values on
\* which the predicate holds.
MatchingPairs(list, merge_criteria) ==
  {p \in (0 .. Len(list) - 1) \X (0 .. Len(list) - 1) :
     /\ p[1] < p[2]
     /\ Criteria(merge_criteria, list[p[1] + 1].bounding_poly,
                 list[p[2] + 1].bounding_poly)}

\* The first pair the double loop meets: the least in row-major order.
FirstPair(S) ==
  CHOOSE p \in S : \A q \in S : p[1] < q[1] \/ (p[1] = q[1] /\ p[2] <= q[2])

\* merge_boxes_with_criteria as a function of the list of annotation values:
\* the list it returns, and the merges it makes on the way, each
\* <<predicate, i, j>>, appended to those made before.
RECURSIVE merge_boxes_with_criteria_run(_, _, _)
merge_boxes_with_criteria_run(list, merge_criteria, merges) ==
  LET S == MatchingPairs(list, merge_criteria)
  IN  IF S = {} THEN [out |-> list, merges |-> merges]
      ELSE LET p == FirstPair(S)
               merged_annotation == merge_boxes(list[p[1] + 1], list[p[2] + 1])
           IN  merge_boxes_with_criteria_run(
                 Splice(list, p[1], p[2], merged_annotation), merge_criteria,
                 Append(merges, <<merge_criteria, p[1], p[2]>>))

merge_boxes_with_criteria(list, merge_criteria) ==
  merge_boxes_with_criteria_run(list, merge_criteria, <<>>).out

\* clean_text_annotations as a function of the list of annotation values.
clean_text_annotations_run(list) ==
  LET merged_run == merge_boxes_with_criteria_run(list, "boxes_overlap", <<>>)
  IN  merge_boxes_with_criteria_run(merged_run.out, "boxes_vertically_aligned",
                                    merged_run.merges)

clean_text_annotations(list) == clean_text_annotations_run(list).out

\* ------------------------------------------------------------- the inputs
Rect(x0, y0, x1, y1) == << <<x0, y0>>, <<x1, y0>>, <<x1, y1>>, <<x0, y1>> >>
Ann(d, box) == [description |-> d, bounding_poly |-> box]

\* A skewed quadrilateral (OCR boxes are rarely exact rectangles).
AnnQ == Ann("Quest", << <<0, 0>>, <<24, 0>>, <<24, 3>>, <<-16, 12>> >>)
\* A line of text above it, and the word that follows on the same line.
AnnA == Ann("Dragon", Rect(-10, -6, 26, -1))
AnnB == Ann("X", Rect(28, -5, 32, 4))
\* A fragment detected inside AnnA, and a second detection of AnnA's box.
AnnC == Ann("rag", Rect(0, -5, 10, -2))
AnnD == Ann("Dragon.", Rect(-10, -6, 26, -1))

Pool == {AnnQ, AnnA, AnnB, AnnC, AnnD}

\* The longest input list, and the number of calls the caller makes (each
\* call after the first is made on the list the call before returned).
MaxLen == 3
MaxCalls == 2

IsInjective(s) == \A a, b \in DOMAIN s : s[a] = s[b] => a = b
InputLists ==
  {s \in UNION {[1 .. n -> Pool] : n \in 0 .. MaxLen} : IsInjective(s)}

\* ------------------------------------------------------- the object heap
\* The value of a TextAnnotation object, and of a list object.
AnnValue(a) ==
  [description |-> ann_heap[a].description,
   bounding_poly |-> [k \in 1..4 |-> point_heap[ann_heap[a].bounding_poly[k]]]]
ListValue(l) == [k \in 1 .. Len(list_heap[l]) |-> AnnValue(list_heap[l][k])]

\* A variant with the two passes in the other order.
CurrentCriteriaSwapped ==
  IF pc = "pass1" THEN "boxes_vertically_aligned" ELSE "boxes_overlap"

\* A variant that runs both passes with boxes_overlap.
CurrentCriteriaOverlapOnly == "boxes_overlap"

\* merge_criteria of the pass that is running.
CurrentCriteria ==
  IF pc = "pass1" THEN "boxes_overlap" ELSE "boxes_vertically_aligned"

\* Two variants of the pair handed on: the operands exchanged, and
\* annotations[j] taken twice.
PairAtSwapped(list, ii, jj) == <<list[jj + 1], list[ii + 1]>>
PairAtSame(list, ii, jj) == <<list[jj + 1], list[jj + 1]>>

\* The two annotations the loop hands to merge_criteria and to merge_boxes:
\* annotations[i] and annotations[j].
PairAt(list, ii, jj) == <<list[ii + 1], list[jj + 1]>>

\* A variant that rebuilds the list in place (annotations[:] = ...): the
\* list object the caller passed is overwritten.
RebindInPlace(ls, cur, newseq) == <<[ls EXCEPT ![cur] = newseq], cur>>

\* The rebinding annotations = annotations[:i] + ... + [merged_annotation]:
\* the concatenation is a new list object, and the name is bound to it.
\* <<the list objects, the list `annotations` names>> afterwards.
Rebind(ls, cur, newseq) == <<Append(ls, newseq), Len(ls) + 1>>

\* A variant of the inner range that starts one further: range(i + 2, ...).
RowStartSkip(ii) == ii + 2

\* for j in range(i + 1, len(annotations)): the first j of a row.
RowStart(ii) == ii + 1

\* A variant that goes on scanning from the indices of the merged pair.
AfterMergeContinue(ii, jj) == <<ii, jj>>

\* merged = True; break; break: the while loop starts the next scan at its
\* first pair, whatever pair (ii, jj) was merged.
AfterMerge(ii, jj) == <<0, RowStart(0)>>

\* annotations = merge_boxes_with_criteria(annotations,
\* boxes_vertically_aligned): the second pass is called with the list the
\* first pass returned.
SecondPassArgument(returned) == returned

\* What the caller passes to a further call: the list the last call returned.
NextArgument == results[call]

\* --------------------------------------------------------------- actions
Init ==
  \E input \in InputLists :
    /\ raw = input
    /\ point_heap = [k \in 1 .. 4 * Len(input) |->
                   input[((k - 1) \div 4) + 1].bounding_poly[((k - 1) % 4) + 1]]
    /\ ann_heap = [a \in 1 .. Len(input) |->
                 [description |-> input[a].description,
                  bounding_poly |-> <<4 * a - 3, 4 * a - 2, 4 * a - 1, 4 * a>>]]
    /\ list_heap = << [a \in 1 .. Len(input) |-> a] >>
    /\ clean_annotations = 1
    /\ annotations = 1
    /\ pc = "pass1"
    /\ i = 0
    /\ j = RowStart(0)
    /\ call = 1
    /\ results = <<>>
    /\ log = <<>>

Scanning == pc \in {"pass1", "pass2"}
Length == Len(list_heap[annotations])

\* The predicate is false on (annotations[i], annotations[j]): next j.
NoMatch ==
  /\ Scanning
  /\ i < Length /\ j < Length
  /\ LET pair == PairAt(list_heap[annotations], i, j)
     IN  ~Criteria(CurrentCriteria, AnnValue(pair[1]).bounding_poly,
                   AnnValue(pair[2]).bounding_poly)
  /\ j' = j + 1
  /\ UNCHANGED <<point_heap, ann_heap, list_heap, clean_annotations,
                 annotations, pc, i, call, results, raw, log>>

\* The predicate holds: merge_boxes builds a new annotation from new Points,
\* the list is rebuilt, merged = True breaks both loops and the scan restarts.
Merge ==
  /\ Scanning
  /\ i < Length /\ j < Length
  /\ LET pair == PairAt(list_heap[annotations], i, j)
         ann1 == AnnValue(pair[1])
         ann2 == AnnValue(pair[2])
         merged == merge_boxes(ann1, ann2)
         np == Len(point_heap)
         merged_annotation == Len(ann_heap) + 1
         bound == Rebind(list_heap, annotations,
                         Splice(list_heap[annotations], i, j, merged_annotation))
     IN  /\ Criteria(CurrentCriteria, ann1.bounding_poly, ann2.bounding_poly)
         /\ point_heap' = point_heap \o merged.bounding_poly
         /\ ann_heap' = Append(ann_heap, [description |-> merged.description,
                                  bounding_poly |-> <<np + 1, np + 2, np + 3, np + 4>>])
         /\ list_heap' = bound[1]
         /\ annotations' = bound[2]
  /\ log' = Append(log, <<call, CurrentCriteria, i, j>>)
  /\ i' = AfterMerge(i, j)[1]
  /\ j' = AfterMerge(i, j)[2]
  /\ UNCHANGED <<clean_annotations, pc, call, results, raw>>

\* The inner loop is exhausted without a merge: next i.
NextRow ==
  /\ Scanning
  /\ i < Length /\ j >= Length
  /\ i' = i + 1
  /\ j' = RowStart(i + 1)
  /\ UNCHANGED <<point_heap, ann_heap, list_heap, clean_annotations,
                 annotations, pc, call, results, raw, log>>

\* A full scan found no pair: merge_boxes_with_criteria returns the list.
\* After the first pass the second starts on it; after the second,
\* clean_text_annotations returns it.
PassDone ==
  /\ Scanning
  /\ i >= Length
  /\ IF pc = "pass1"
     THEN /\ pc' = "pass2"
          /\ annotations' = SecondPassArgument(annotations)
          /\ i' = 0
          /\ j' = RowStart(0)
          /\ UNCHANGED results
     ELSE /\ pc' = "returned"
          /\ results' = Append(results, annotations)
          /\ UNCHANGED <<annotations, i, j>>
  /\ clean_annotations' = annotations
  /\ UNCHANGED <<point_heap, ann_heap, list_heap, call, raw, log>>

\* The caller runs clean_text_annotations again, on the list it got back.
CallAgain ==
  /\ pc = "returned"
  /\ call < MaxCalls
  /\ call' = call + 1
  /\ clean_annotations' = NextArgument
  /\ annotations' = NextArgument
  /\ pc' = "pass1"
  /\ i' = 0
  /\ j' = RowStart(0)
  /\ UNCHANGED <<point_heap, ann_heap, list_heap, results, raw, log>>

Next == NoMatch \/ Merge \/ NextRow \/ PassDone \/ CallAgain

Spec == Init /\ [][Next]_vars

\* The code runs to completion: a step that can be taken is taken.  For the
\* steps of a pass this is WF_vars(Step) with its enabling condition written
\* out: in a pass exactly one of the four steps can be taken, so
\* ENABLED <<Step>>_vars is Scanning.
Step == NoMatch \/ Merge \/ NextRow \/ PassDone
LiveSpec ==
  /\ Spec
  /\ WF_vars(CallAgain)
  /\ ([]<>~Scanning \/ []<><<Step>>_vars)

\* ------------------------------------- the functions, called on one pair
\* The same box as AnnA, one unit taller, with a shorter description; AnnA's
\* box moved 6 to the right; AnnB's box described from its second corner, so
\* that its first edge points down (angle 90); a small box inside AnnB's; a
\* box of height zero.
AnnE == Ann("Dr", Rect(-10, -6, 26, 0))
AnnG == Ann("Dragom", Rect(-4, -6, 32, -1))
AnnV == Ann("V", << <<32, -5>>, <<32, 4>>, <<28, 4>>, <<28, -5>> >>)
AnnW == Ann("wide", Rect(29, -4, 31, -2))
AnnZ == Ann("Z", Rect(0, 20, 10, 20))

AnnH == Ann("Hi", Rect(15, -3, 25, 0))
UnitPool == {AnnQ, AnnA, AnnB, AnnD, AnnE, AnnG, AnnH, AnnV, AnnW, AnnZ}

\* The boxes of the two annotations the functions are called on.
Box1 == AnnValue(1).bounding_poly
Box2 == AnnValue(2).bounding_poly

\* Two annotations are built; pc names the function called next, and results
\* collects what each call returns.
UnitInit ==
  \E ann1, ann2 \in UnitPool :
    LET input == <<ann1, ann2>>
    IN  /\ raw = input
        /\ point_heap = [k \in 1 .. 8 |->
             input[((k - 1) \div 4) + 1].bounding_poly[((k - 1) % 4) + 1]]
        /\ ann_heap = [a \in 1 .. 2 |->
             [description |-> input[a].description,
              bounding_poly |-> <<4 * a - 3, 4 * a - 2, 4 * a - 1, 4 * a>>]]
        /\ list_heap = << <<1, 2>> >>
        /\ clean_annotations = 1
        /\ annotations = 1
        /\ pc = "boxes_overlap"
        /\ i = 0
        /\ j = 1
        /\ call = 1
        /\ results = <<>>
        /\ log = <<>>

CallBoxesOverlap ==
  /\ pc = "boxes_overlap"
  /\ results' = Append(results, boxes_overlap(Box1, Box2))
  /\ pc' = "boxes_vertically_aligned"
  /\ UNCHANGED <<point_heap, ann_heap, list_heap, clean_annotations,
                 annotations, i, j, call, raw, log>>

CallBoxesVerticallyAligned ==
  /\ pc = "boxes_vertically_aligned"
  /\ results' = Append(results, boxes_vertically_aligned(Box1, Box2))
  /\ pc' = "calculate_iou"
  /\ UNCHANGED <<point_heap, ann_heap, list_heap, clean_annotations,
                 annotations, i, j, call, raw, log>>

CallCalculateIou ==
  /\ pc = "calculate_iou"
  /\ results' = Append(results, calculate_iou(Box1, Box2))
  /\ pc' = "merge_boxes"
  /\ UNCHANGED <<point_heap, ann_heap, list_heap, clean_annotations,
                 annotations, i, j, call, raw, log>>

\* merge_boxes returns a new annotation, built from new Points; when it
\* raises, no annotation is built and 0 stands for the missing result.
CallMergeBoxes ==
  /\ pc = "merge_boxes"
  /\ IF MergeBoxesRaises(AnnValue(1), AnnValue(2))
     THEN /\ results' = Append(results, 0)
          /\ UNCHANGED <<point_heap, ann_heap>>
     ELSE LET merged == merge_boxes(AnnValue(1), AnnValue(2))
              np == Len(point_heap)
          IN  /\ point_heap' = point_heap \o merged.bounding_poly
              /\ ann_heap' = Append(ann_heap,
                   [description |-> merged.description,
                    bounding_poly |-> <<np + 1, np + 2, np + 3, np + 4>>])
              /\ results' = Append(results, Len(ann_heap) + 1)
  /\ pc' = "done"
  /\ UNCHANGED <<list_heap, clean_annotations, annotations, i, j, call, raw,
                 log>>

UnitNext ==
  \/ CallBoxesOverlap
  \/ CallBoxesVerticallyAligned
  \/ CallCalculateIou
  \/ CallMergeBoxes

UnitSpec == UnitInit /\ [][UnitNext]_vars

\* ------------------------------------- consolidation of any descriptions
\* clean_text_annotations called on annotations whose descriptions are not
\* all different and not all non-empty: TextAnnotation takes any string, and
\* neither the conversion nor the consolidation tests it.
AnnN == Ann("", Rect(0, -5, 10, -2))
AnnX == Ann("X", Rect(100, 100, 104, 109))
DescPool == {AnnA, AnnB, AnnN, AnnX}
DescLists ==
  {s \in UNION {[1 .. n -> DescPool] : n \in 0 .. MaxLen} : IsInjective(s)}

DescInit ==
  \E input \in DescLists :
    /\ raw = input
    /\ point_heap = [k \in 1 .. 4 * Len(input) |->
                   input[((k - 1) \div 4) + 1].bounding_poly[((k - 1) % 4) + 1]]
    /\ ann_heap = [a \in 1 .. Len(input) |->
                 [description |-> input[a].description,
                  bounding_poly |-> <<4 * a - 3, 4 * a - 2, 4 * a - 1, 4 * a>>]]
    /\ list_heap = << [a \in 1 .. Len(input) |-> a] >>
    /\ clean_annotations = 1
    /\ annotations = 1
    /\ pc = "pass1"
    /\ i = 0
    /\ j = RowStart(0)
    /\ call = 1
    /\ results = <<>>
    /\ log = <<>>

DescSpec == DescInit /\ [][Next]_vars

\* ----------------------------------------- construction of a BoundingBox
\* A caller constructs a BoundingBox from a list of any number of Points and
\* reads its center.  BoundingBox is a dataclass without __post_init__: the
\* constructor stores the list it is given and raises nothing.
MaxVertices == 5
VertexPool == {<<0, 0>>, <<10, 0>>, <<10, 4>>}
VertexLists == UNION {[1 .. n -> VertexPool] : n \in 0 .. MaxVertices}

\* sum(p.x for p in self.vertices), sum(p.y for p in self.vertices).
RECURSIVE VertexSum(_)
VertexSum(vertices) ==
  IF vertices = <<>> THEN <<0, 0>>
  ELSE LET rest == VertexSum(Tail(vertices))
       IN  <<Head(vertices)[1] + rest[1], Head(vertices)[2] + rest[2]>>

ModelsInit ==
  /\ raw = <<>>
  /\ point_heap = <<>>
  /\ ann_heap = <<>>
  /\ list_heap = <<>>
  /\ clean_annotations = 0
  /\ annotations = 0
  /\ pc = "BoundingBox"
  /\ i = 0
  /\ j = 0
  /\ call = 1
  /\ results = <<>>
  /\ log = <<>>

\* BoundingBox(vertices=...): the generated __init__ assigns the field.
\* results[1] is what the caller gets: whether the call raised, and the
\* vertices of the object built.
ConstructBoundingBox ==
  /\ pc = "BoundingBox"
  /\ \E vertices \in VertexLists :
       /\ point_heap' = vertices
       /\ results' = <<[raised |-> FALSE, vertices |-> vertices]>>
  /\ pc' = "constructed"
  /\ UNCHANGED <<ann_heap, list_heap, clean_annotations, annotations, i, j,
                 call, raw, log>>

\* The caller reads BoundingBox.center: the sum of all the vertices, divided
\* by 4 whatever their number (kept times 4).
ReadCenter ==
  /\ pc = "constructed"
  /\ results' = Append(results, VertexSum(results[1].vertices))
  /\ pc' = "center"
  /\ UNCHANGED <<point_heap, ann_heap, list_heap, clean_annotations,
                 annotations, i, j, call, raw, log>>

ModelsNext == ConstructBoundingBox \/ ReadCenter

ModelsSpec == ModelsInit /\ [][ModelsNext]_vars

\* ------------------------------------------ conversion of OCR detections
\* detect_text hands the detections of the OCR source to
\* _convert_annotations, and the pipeline hands the result to
\* clean_text_annotations.  A detection is [description, vertices,
\* full_text]; full_text tells whether it is the whole-image annotation,
\* which the source never reads.  A vertex is the set of its fields, each
\* <<name, value>>; a field the response left out is not in the set.
Vertex(x, y) == {<<"x", x>>, <<"y", y>>}
OnlyX(x) == {<<"x", x>>}
OnlyY(y) == {<<"y", y>>}
NoField == {}
Detection(d, vs, whole) == [description |-> d, vertices |-> vs, full_text |-> whole]
FullVertices(box) == [k \in DOMAIN box |-> Vertex(box[k][1], box[k][2])]

DetWhole == Detection("Dragon X", FullVertices(Rect(-10, -6, 32, 4)), TRUE)
DetA == Detection("Dragon", FullVertices(AnnA.bounding_poly), FALSE)
DetB == Detection("X", FullVertices(AnnB.bounding_poly), FALSE)
\* The box (0,0),(10,0),(10,4),(0,4) with every zero coordinate left out.
DetO == Detection("O", <<NoField, OnlyX(10), Vertex(10, 4), OnlyY(4)>>, FALSE)
DetTri == Detection("tri", <<Vertex(0, 0), Vertex(10, 0), Vertex(10, 4)>>, FALSE)
DetFive ==
  Detection("five", <<Vertex(0, 0), Vertex(10, 0), Vertex(10, 4),
                      Vertex(5, 6), Vertex(0, 4)>>, FALSE)
DetectionPool == {DetWhole, DetA, DetB, DetO, DetTri, DetFive}

\* The lists of detections: the whole-image annotation, when there is one,
\* comes first.
MaxDetections == 3
RawLists ==
  {s \in UNION {[1 .. n -> DetectionPool] : n \in 0 .. MaxDetections} :
     \A k \in DOMAIN s : k > 1 => ~s[k].full_text}

hasattr(vertex, name) == \E f \in vertex : f[1] = name
getattr(vertex, name) == (CHOOSE f \in vertex : f[1] = name)[2]

\* The points built from the vertices of a detection.
ConvertedPoints(vertices) ==
  [k \in DOMAIN vertices |->
     << IF hasattr(vertices[k], "x") THEN getattr(vertices[k], "x") ELSE 0,
        IF hasattr(vertices[k], "y") THEN getattr(vertices[k], "y") ELSE 0 >>]

\* raw_annotations[1:]: the index, counted from 0, the loop starts at.
SliceStart == 1

OcrInit ==
  \E input \in RawLists :
    /\ raw = input
    /\ point_heap = <<>>
    /\ ann_heap = <<>>
    /\ list_heap = << <<>> >>
    /\ clean_annotations = 0
    /\ annotations = 1
    /\ pc = "convert"
    /\ i = SliceStart
    /\ j = 0
    /\ call = 1
    /\ results = <<>>
    /\ log = <<>>

\* One iteration of the loop over raw_annotations[1:]: the points are built,
\* and a detection with exactly four of them is appended as a TextAnnotation.
ConvertDetection ==
  /\ pc = "convert"
  /\ i < Len(raw)
  /\ LET annotation == raw[i + 1]
         points == ConvertedPoints(annotation.vertices)
         np == Len(point_heap)
     IN  IF Len(points) = 4
         THEN /\ point_heap' = point_heap \o points
              /\ ann_heap' = Append(ann_heap,
                   [description |-> annotation.description,
                    bounding_poly |-> <<np + 1, np + 2, np + 3, np + 4>>])
              /\ list_heap' = [list_heap EXCEPT
                                 ![annotations] = Append(@, Len(ann_heap) + 1)]
         ELSE UNCHANGED <<point_heap, ann_heap, list_heap>>
  /\ i' = i + 1
  /\ UNCHANGED <<clean_annotations, annotations, pc, j, call, results, raw,
                 log>>

\* The loop is exhausted: _convert_annotations returns the list.
ConvertReturn ==
  /\ pc = "convert"
  /\ i >= Len(raw)
  /\ results' = <<annotations>>
  /\ pc' = "converted"
  /\ UNCHANGED <<point_heap, ann_heap, list_heap, clean_annotations,
                 annotations, i, j, call, raw, log>>

\* The pipeline calls clean_text_annotations on the converted list.
StartCleaning ==
  /\ pc = "converted"
  /\ clean_annotations' = results[1]
  /\ annotations' = results[1]
  /\ pc' = "pass1"
  /\ i' = 0
  /\ j' = RowStart(0)
  /\ UNCHANGED <<point_heap, ann_heap, list_heap, call, results, raw, log>>

OcrNext ==
  \/ ConvertDetection
  \/ ConvertReturn
  \/ StartCleaning
  \/ NoMatch
  \/ Merge
  \/ NextRow
  \/ PassDone

OcrSpec == OcrInit /\ [][OcrNext]_vars

\* ------------------------------------------------------------- properties
\* The merges the log holds for call c under predicate m.
Merges(c, m) == {k \in DOMAIN log : log[k][1] = c /\ log[k][2] = m}

\* The list the running pass was called with.
PassArgument == clean_annotations

\* A list without its elements at ii and jj (counted from 0, ii < jj).
Remaining(old, ii, jj) ==
  [k \in 1 .. Len(old) - 2 |->
     old[IF k <= ii THEN k ELSE IF k + 1 <= jj THEN k + 1 ELSE k + 2]]

\* The Point objects of an annotation's box.
PointsOf(a) == {ann_heap[a].bounding_poly[k] : k \in 1..4}

\* The pairs of a list on which either predicate holds.
AnyMatch(list) ==
  MatchingPairs(list, "boxes_overlap")
    \cup MatchingPairs(list, "boxes_vertically_aligned")

\* C1: clean_text_annotations(clean_text_annotations(X)) equals
\* clean_text_annotations(X): when the second call, made on the list the
\* first call returned, returns, it has made no merge, the list it returns
\* equals the list it was given, and no pair of that list satisfies
\* boxes_overlap or boxes_vertically_aligned.
\* It does not hold.  For <<AnnQ, AnnA, AnnB>> the first call merges AnnA and
\* AnnB in its second pass; the merged box satisfies boxes_overlap with AnnQ,
\* which no pass of that call tests any more, and the second call merges them.
C1_Idempotent ==
  (pc = "returned" /\ call = 2) =>
    /\ Merges(2, "boxes_overlap") = {}
    /\ Merges(2, "boxes_vertically_aligned") = {}
    /\ ListValue(results[2]) = ListValue(results[1])
    /\ AnyMatch(ListValue(results[1])) = {}

\* C2: merge_boxes_with_criteria terminates.  Each merge shortens the working
\* list by exactly one element; a pass called with n annotations has made at
\* most n - 1 merges, the working list being shorter than the argument by the
\* number of merges made; and every pass that starts ends.
C2_Terminates ==
  /\ [](Scanning =>
          LET n == Len(list_heap[PassArgument])
              made == Cardinality(Merges(call, CurrentCriteria))
          IN  /\ made <= Max2(n - 1, 0)
              /\ Length = n - made)
  /\ [][log' # log => Len(list_heap'[annotations']) = Length - 1]_vars
  /\ (pc = "pass1") ~> (pc = "pass2")
  /\ (pc = "pass2") ~> (pc = "returned")

\* A pass called with 3 annotations has made 2 merges and has ended.
C2_Witness ==
  /\ pc = "pass2" /\ call = 1
  /\ Len(raw) = 3
  /\ Cardinality(Merges(1, "boxes_overlap")) = 2
  /\ Length = 1

\* C3: whenever a merge is made, the merged pair (i, j) is the least pair, in
\* the order of the double loop, of the current list on which the predicate
\* holds, and the scan restarts at (0, 1).
C3_FirstPairMerged ==
  [][log' # log =>
       LET S == MatchingPairs(ListValue(annotations), CurrentCriteria)
       IN  /\ <<i, j>> \in S
           /\ \A q \in S : i < q[1] \/ (i = q[1] /\ j <= q[2])
           /\ log' = Append(log, <<call, CurrentCriteria, i, j>>)
           /\ i' = 0 /\ j' = 1]_vars

\* The pair (0, 1) has been merged while the pairs (0, 2) and (1, 2) of the
\* list matched too, and the scan is back at (0, 1).
C3_Witness ==
  /\ log = << <<1, "boxes_overlap", 0, 1>> >>
  /\ MatchingPairs(raw, "boxes_overlap") = {<<0, 1>>, <<0, 2>>, <<1, 2>>}
  /\ i = 0 /\ j = 1

C5_OverlapBeforeAdjacency ==
  /\ [](/\ \A a, b \in DOMAIN log :
             (/\ log[a][1] = log[b][1]
              /\ log[a][2] = "boxes_overlap"
              /\ log[b][2] = "boxes_vertically_aligned") => a < b
        /\ (pc = "pass2" /\ Merges(call, "boxes_vertically_aligned") = {})
             => annotations = clean_annotations
        /\ pc = "pass2" =>
             MatchingPairs(ListValue(clean_annotations), "boxes_overlap") = {})
  /\ [][/\ (pc = "pass1" /\ pc' = "pass2") =>
             /\ clean_annotations' = annotations
             /\ annotations' = annotations
             /\ list_heap' = list_heap
        /\ pc = "pass2" => pc' \in {"pass2", "returned"}]_vars

\* A call has returned after merges of both kinds.
C5_Witness ==
  /\ pc = "returned" /\ call = 1
  /\ Merges(1, "boxes_overlap") # {}
  /\ Merges(1, "boxes_vertically_aligned") # {}

\* C6: when merge_boxes_with_criteria has returned for a predicate, the
\* predicate holds for no pair (i, j), i < j, of the list it returned.
C6_NoPairLeft ==
  /\ pc = "pass2" =>
       MatchingPairs(ListValue(clean_annotations), "boxes_overlap") = {}
  /\ pc = "returned" =>
       MatchingPairs(ListValue(results[call]), "boxes_vertically_aligned") = {}

\* The second pass has returned, after a merge, a list of two annotations.
C6_Witness ==
  /\ pc = "returned" /\ call = 1
  /\ Merges(1, "boxes_vertically_aligned") # {}
  /\ Len(list_heap[results[1]]) = 2

\* C7: the run is a function of the input list: the list a call returns and
\* the sequence of merges it makes are those of clean_text_annotations
\* evaluated on the value of the input, so two runs on equal inputs agree.
C7_Deterministic ==
  (pc = "returned" /\ call = 1) =>
    LET run == clean_text_annotations_run(raw)
    IN  /\ ListValue(results[1]) = run.out
        /\ [k \in DOMAIN log |-> <<log[k][2], log[k][3], log[k][4]>>]
             = run.merges

\* A call on three annotations has returned after two merges.
C7_Witness ==
  /\ pc = "returned" /\ call = 1
  /\ raw = <<AnnA, AnnC, AnnB>>
  /\ Len(log) = 2

\* C8: the result depends on the order of the input: called on
\* <<AnnA, AnnD>>, clean_text_annotations returns annotations that are not
\* those it returns for <<AnnD, AnnA>>, even with the order of the output
\* left aside.
C8_OrderMatters ==
  (pc = "returned" /\ call = 1 /\ raw = <<AnnA, AnnD>>) =>
    Range(ListValue(results[1]))
      # Range(clean_text_annotations(<<AnnD, AnnA>>))

\* The call on <<AnnA, AnnD>> has returned AnnA's description; on
\* <<AnnD, AnnA>> the result holds AnnD's.
C8_Witness ==
  /\ pc = "returned" /\ call = 1
  /\ raw = <<AnnA, AnnD>>
  /\ ListValue(results[1]) = <<Ann("Dragon", Rect(-10, -6, 26, -1))>>
  /\ clean_text_annotations(<<AnnD, AnnA>>)
       = <<Ann("Dragon.", Rect(-10, -6, 26, -1))>>

\* C9: consolidation never modifies its inputs.  The caller's list keeps its
\* length, elements and order, and its annotations their descriptions, boxes
\* and points; no object that exists is ever changed; and no two annotations,
\* merged or not, share a Point.
C9_InputsUntouched ==
  /\ [](/\ list_heap[1] = [a \in 1 .. Len(raw) |-> a]
        /\ \A a \in 1 .. Len(raw) :
             /\ AnnValue(a) = raw[a]
             /\ ann_heap[a].bounding_poly
                  = <<4 * a - 3, 4 * a - 2, 4 * a - 1, 4 * a>>
        /\ \A a \in DOMAIN ann_heap : Cardinality(PointsOf(a)) = 4
        /\ \A a, b \in DOMAIN ann_heap :
             a # b => PointsOf(a) \cap PointsOf(b) = {})
  /\ [][/\ \A l \in DOMAIN list_heap : list_heap'[l] = list_heap[l]
        /\ \A a \in DOMAIN ann_heap : ann_heap'[a] = ann_heap[a]
        /\ \A p \in DOMAIN point_heap : point_heap'[p] = point_heap[p]]_vars

\* A call on three annotations has returned, after a merge, a list that is
\* not the caller's.
C9_Witness ==
  /\ pc = "returned" /\ call = 1
  /\ Len(raw) = 3
  /\ log # <<>>
  /\ results[1] # 1
  /\ Len(list_heap[1]) = 3

\* C10: if no pair of the input satisfies boxes_overlap and none satisfies
\* boxes_vertically_aligned, the call makes no merge and returns a list equal
\* to its input; the empty list is returned for the empty list.
C10_NoPairNoChange ==
  (pc = "returned" /\ call = 1 /\ AnyMatch(raw) = {}) =>
    /\ ListValue(results[1]) = raw
    /\ log = <<>>

\* A call on three annotations no two of which match has returned.
C10_Witness ==
  /\ pc = "returned" /\ call = 1
  /\ Len(raw) = 3
  /\ AnyMatch(raw) = {}
  /\ ListValue(results[1]) = raw

\* The vertices of box in the frame of ref: about ref's center, turned back
\* by ref's angle; times 4.
Frame(box, ref) ==
  rotate_points(box, center4(ref), cos(-angle(ref)), sin(-angle(ref)))

\* The length of the common part of two vertical spans (negative when they
\* are apart), and the horizontal gap between two boxes (0 when their
\* horizontal spans meet), of two vertex lists in one frame.
SpanOverlap(r1, r2) ==
  Min2(SetMax(Ys(r1)), SetMax(Ys(r2))) - Max2(SetMin(Ys(r1)), SetMin(Ys(r2)))
Gap(r1, r2) ==
  Max2(0, Max2(SetMin(Xs(r2)) - SetMax(Xs(r1)),
               SetMin(Xs(r1)) - SetMax(Xs(r2))))
Height(r) == SetMax(Ys(r)) - SetMin(Ys(r))

\* Two boxes of one orientation, on one line (their vertical spans share at
\* least half the smaller height), a positive horizontal gap apart that is
\* smaller than half their average height.
AdjacentOnLine(box1, box2) ==
  LET r1 == Frame(box1, box1)
      r2 == Frame(box2, box1)
  IN  /\ angle(box1) = angle(box2)
      /\ 2 * SpanOverlap(r1, r2) >= Min2(Height(r1), Height(r2))
      /\ Gap(r1, r2) > 0
      /\ 4 * Gap(r1, r2) < Height(r1) + Height(r2)

\* s contains t as a substring.
Contains(s, t) ==
  \E k \in 0 .. Len(s) - Len(t) : SubSeq(s, k + 1, k + Len(t)) = t

\* C11: for a two-element input whose boxes have the same orientation, lie on
\* the same line and are separated by a horizontal gap smaller than half
\* their average height, clean_text_annotations returns exactly one
\* annotation, and its description contains both input descriptions.
C11_AdjacentFragmentsJoined ==
  (/\ pc = "returned" /\ call = 1
   /\ Len(raw) = 2
   /\ AdjacentOnLine(raw[1].bounding_poly, raw[2].bounding_poly)) =>
    LET out == ListValue(results[1])
    IN  /\ Len(out) = 1
        /\ Contains(out[1].description, raw[1].description)
        /\ Contains(out[1].description, raw[2].description)

\* The call on "Dragon" and "X", 2 apart on one line, has returned the one
\* annotation "Dragon X".
C11_Witness ==
  /\ pc = "returned" /\ call = 1
  /\ raw = <<AnnA, AnnB>>
  /\ AdjacentOnLine(AnnA.bounding_poly, AnnB.bounding_poly)
  /\ Len(list_heap[results[1]]) = 1
  /\ ListValue(results[1])[1].description = "Dragon X"

\* The operands and the result of the merge_boxes call, and whether the
\* containment rule applies to the operands: intersection_area / own area
\* exceeds 0.95 for either box.
Ann1 == AnnValue(1)
Ann2 == AnnValue(2)
Merged == AnnValue(results[4])
Contained ==
  LET polygon1 == to_shapely_polygon(Box1)
      polygon2 == to_shapely_polygon(Box2)
      intersection_area == IntersectionArea2(polygon1, polygon2)
  IN  \/ ContainmentAbove95(intersection_area, polygon1)
      \/ ContainmentAbove95(intersection_area, polygon2)

Joined(d1, d2) == d1 \o " " \o d2

\* C13: in merge_boxes, when neither containment ratio exceeds 0.95 and the
\* grid IoU exceeds 0.5, the merged description is the longer of the two input
\* descriptions, the first operand's when both have the same length; it is
\* never the two descriptions joined.
C13_IouKeepsLonger ==
  (pc = "done" /\ ~Contained /\ IouAboveHalf(results[3])) =>
    /\ Merged.description =
         IF Len(Ann1.description) >= Len(Ann2.description)
         THEN Ann1.description ELSE Ann2.description
    /\ Merged.description # Joined(Ann1.description, Ann2.description)
    /\ Merged.description # Joined(Ann2.description, Ann1.description)

\* "Dr" and "Dragom" overlap with IoU 5740 / 9645 and neither is contained;
\* "Dr" has the larger area, and the merged description is "Dragom".
C13_Witness ==
  /\ pc = "done"
  /\ raw = <<AnnE, AnnG>>
  /\ ~Contained
  /\ results[3] = <<5740, 9645>>
  /\ area4(Box1) > area4(Box2)
  /\ Merged.description = "Dragom"

\* C14: in merge_boxes, when neither containment ratio exceeds 0.95 and the
\* grid IoU is at most 0.5, the merged description is the two input
\* descriptions joined by exactly one space: the first operand's first iff
\* its center x is less than or equal to the second operand's center x, the
\* second operand's first otherwise.
C14_JoinedLeftToRight ==
  (pc = "done" /\ ~Contained /\ ~IouAboveHalf(results[3])) =>
    Merged.description =
      IF center4(Box1)[1] <= center4(Box2)[1]
      THEN Joined(Ann1.description, Ann2.description)
      ELSE Joined(Ann2.description, Ann1.description)

\* "X", to the right of "Dragon", is the first operand: the merged
\* description is "Dragon X".
C14_Witness ==
  /\ pc = "done"
  /\ raw = <<AnnB, AnnA>>
  /\ ~Contained
  /\ results[3][1] = 0
  /\ center4(Box1)[1] > center4(Box2)[1]
  /\ Merged.description = "Dragon X"

\* C15: the box merge_boxes returns has the rotation angle (the direction of
\* its edge from vertex 0 to vertex 1) of the input box with the larger
\* rectangle-model area, and of the first operand when the areas are equal,
\* whichever description rule fired.
C15_DominantAngle ==
  (pc = "done") =>
    angle(Merged.bounding_poly) =
      IF area4(Box1) >= area4(Box2) THEN angle(Box1) ELSE angle(Box2)

\* "wide", at angle 0, is merged with the larger "V", at angle 90: the merged
\* box has angle 90, not the first operand's.
C15_Witness ==
  /\ pc = "done"
  /\ raw = <<AnnW, AnnV>>
  /\ area4(Box2) > area4(Box1)
  /\ angle(Box1) = 0
  /\ angle(Box2) = 90
  /\ angle(Merged.bounding_poly) = 90

\* C16: the box merge_boxes returns tightly bounds both inputs in the
\* merged-angle frame: there it is a rectangle with sides parallel to the
\* axes, all eight input vertices lie inside or on it, and each of its four
\* sides passes through at least one of the eight input vertices.
C16_TightBounds ==
  (pc = "done") =>
    LET box == Merged.bounding_poly
        m == Frame(box, box)
        r == Frame(Box1 \o Box2, box)
        x_min == SetMin(Xs(m))
        x_max == SetMax(Xs(m))
        y_min == SetMin(Ys(m))
        y_max == SetMax(Ys(m))
    IN  /\ m = << <<x_min, y_min>>, <<x_max, y_min>>,
                  <<x_max, y_max>>, <<x_min, y_max>> >>
        /\ \A k \in 1..8 : /\ x_min <= r[k][1] /\ r[k][1] <= x_max
                           /\ y_min <= r[k][2] /\ r[k][2] <= y_max
        /\ \E k \in 1..8 : r[k][1] = x_min
        /\ \E k \in 1..8 : r[k][1] = x_max
        /\ \E k \in 1..8 : r[k][2] = y_min
        /\ \E k \in 1..8 : r[k][2] = y_max

\* The skewed box of "Quest" (x from -16 to 24, y from 0 to 12) and the box of
\* "X" (x from 28 to 32, y from -5 to 4) are merged into the rectangle with x
\* from -16 to 32 and y from -5 to 12: the left and top sides come from the
\* first operand, the right and bottom sides from the second.
C16_Witness ==
  /\ pc = "done"
  /\ raw = <<AnnQ, AnnB>>
  /\ Merged.bounding_poly = Rect(-16, -5, 32, 12)

\* The difference of the two rotation angles after normalisation to
\* min(|d|, 360 - |d|), in degrees.
NormalisedAngleDifference(box1, box2) ==
  LET d == Abs(angle(box1) - angle(box2))
  IN  Min2(d, 360 - d)

\* C17: boxes_overlap and boxes_vertically_aligned both return false for every
\* pair of boxes whose rotation angles differ, after normalisation, by more
\* than 5 degrees, whatever their positions and sizes; two boxes rotated 90
\* degrees apart never satisfy boxes_overlap.
C17_AngleGate ==
  (Len(results) >= 2 /\ NormalisedAngleDifference(Box1, Box2) > 5) =>
    /\ results[1] = FALSE
    /\ results[2] = FALSE

\* "X" and "V" have the same four corners (the polygons intersect and the
\* centers coincide) but start at different corners, so their angles are 0
\* and 90: both predicates have returned false.
C17_Witness ==
  /\ Len(results) >= 2
  /\ raw = <<AnnB, AnnV>>
  /\ NormalisedAngleDifference(Box1, Box2) = 90
  /\ center4(Box1) = center4(Box2)
  /\ Intersects(to_shapely_polygon(Box1), to_shapely_polygon(Box2))
  /\ results[1] = FALSE
  /\ results[2] = FALSE

\* C18: boxes_vertically_aligned returns false for every pair of boxes of the
\* same orientation whose vertical spans, measured in the first box's rotated
\* frame, do not overlap, whatever their horizontal positions.
C18_ApartVerticallyNotAligned ==
  (/\ Len(results) >= 2
   /\ angle(Box1) = angle(Box2)
   /\ SpanOverlap(Frame(Box1, Box1), Frame(Box2, Box1)) < 0) =>
    results[2] = FALSE

\* "Quest" lies above "Dragon", their vertical spans 1 apart and their
\* horizontal spans meeting: boxes_vertically_aligned has returned false.
C18_Witness ==
  /\ Len(results) >= 2
  /\ raw = <<AnnQ, AnnA>>
  /\ angle(Box1) = angle(Box2)
  /\ SpanOverlap(Frame(Box1, Box1), Frame(Box2, Box1)) = -4
  /\ Gap(Frame(Box1, Box1), Frame(Box2, Box1)) = 0
  /\ results[2] = FALSE

\* The value calculate_iou returns for a pair of counts, as a fraction:
\* intersection / union, and 0 when union is 0.
IouNum(iou) == IF iou[2] > 0 THEN iou[1] ELSE 0
IouDen(iou) == IF iou[2] > 0 THEN iou[2] ELSE 1

\* C19: calculate_iou is symmetric and bounded: calculate_iou(A, B) equals
\* calculate_iou(B, A) for all box pairs, and the result lies in [0, 1].
C19_IouSymmetricBounded ==
  (pc = "merge_boxes") =>
    LET ab == results[3]
        ba == calculate_iou(Box2, Box1)
    IN  /\ IouNum(ab) * IouDen(ba) = IouNum(ba) * IouDen(ab)
        /\ 0 <= IouNum(ab)
        /\ IouNum(ab) <= IouDen(ab)

\* calculate_iou has returned 5740 / 9645 for "Dr" and "Dragom", two
\* different boxes that overlap in part, and returns the same for them
\* exchanged.
C19_Witness ==
  /\ pc = "merge_boxes"
  /\ raw = <<AnnE, AnnG>>
  /\ Box1 # Box2
  /\ results[3] = <<5740, 9645>>
  /\ calculate_iou(Box2, Box1) = <<5740, 9645>>

\* C20, as stated: for every box A, calculate_iou(A, A) is approximately 1.0
\* (above 0.95, the tolerance of the test of identical boxes).
\* It does not hold for every box: no grid point is inside a box of zero
\* area, union is 0 and calculate_iou returns 0.
C20_SelfIouNearOne ==
  (pc = "merge_boxes" /\ Box1 = Box2) =>
    100 * IouNum(results[3]) > 95 * IouDen(results[3])

\* C20, amended: calculate_iou(A, A) counts the same grid points as
\* intersection and as union; it is exactly 1 for every box of positive area
\* and 0 for a box of zero area, inside which no grid point lies.
C20_SelfIou ==
  (pc = "merge_boxes" /\ Box1 = Box2) =>
    LET iou == results[3]
        positive == PolygonArea2(to_shapely_polygon(Box1)) > 0
    IN  /\ iou[1] = iou[2]
        /\ positive => (iou[2] > 0 /\ IouNum(iou) = IouDen(iou))
        /\ ~positive => (iou[2] = 0 /\ IouNum(iou) = 0)

\* calculate_iou has returned for the skewed box of "Quest" against itself:
\* 4170 grid points in the intersection and 4170 in the union.
C20_Witness ==
  /\ pc = "merge_boxes"
  /\ raw = <<AnnQ, AnnQ>>
  /\ results[3] = <<4170, 4170>>

\* calculate_iou has returned for the zero-height box of "Z" against itself:
\* no grid point in the union, result 0.
C20_ZeroArea ==
  /\ pc = "merge_boxes"
  /\ raw = <<AnnZ, AnnZ>>
  /\ PolygonArea2(to_shapely_polygon(Box1)) = 0
  /\ results[3] = <<0, 0>>
  /\ IouNum(results[3]) = 0

\* C21: degenerate zero-area boxes never cause a division by zero.  In
\* merge_boxes the containment ratio of a polygon of area zero is 0;
\* calculate_iou returns 0 when no grid point lies in either polygon; and
\* merge_boxes returns an annotation for such operands.
C21_ZeroAreaNoFault ==
  LET polygon1 == to_shapely_polygon(Box1)
      polygon2 == to_shapely_polygon(Box2)
      intersection_area == IntersectionArea2(polygon1, polygon2)
      degenerate(polygon) == PolygonArea2(polygon) = 0
  IN  (pc = "done" /\ (degenerate(polygon1) \/ degenerate(polygon2))) =>
        /\ degenerate(polygon1) =>
             Containment(intersection_area, polygon1) = <<0, 1>>
        /\ degenerate(polygon2) =>
             Containment(intersection_area, polygon2) = <<0, 1>>
        /\ ~MergeBoxesRaises(Ann1, Ann2)
        /\ results[3][2] = 0 =>
             (IouNum(results[3]) = 0 /\ ~IouAboveHalf(results[3]))
        /\ results[4] \in DOMAIN ann_heap
        /\ results[4] \notin {1, 2}

\* merge_boxes has returned "Z Z" for the zero-height box of "Z" merged with
\* itself: both polygons have area 0 and no grid point lies in either.
C21_Witness ==
  /\ pc = "done"
  /\ raw = <<AnnZ, AnnZ>>
  /\ PolygonArea2(to_shapely_polygon(Box1)) = 0
  /\ results[3] = <<0, 0>>
  /\ results[4] = 3
  /\ Merged.description = "Z Z"

\* C22: constructing a BoundingBox with a number of vertices other than four
\* raises an invalid-input error at construction; no BoundingBox value with
\* fewer or more than four vertices exists.
\* It does not hold: the constructor accepts a list of any length.
C22_FourVerticesOrError ==
  (pc \in {"constructed", "center"}) =>
    /\ Len(point_heap) # 4 => results[1].raised
    /\ ~results[1].raised => Len(results[1].vertices) = 4

\* The TextAnnotation a four-vertex detection is converted to, and the
\* conversion of the four-vertex detections of a list, in their order.
Converted(d) ==
  [description |-> d.description, bounding_poly |-> ConvertedPoints(d.vertices)]
FourVertexDetections(list) == SelectSeq(list, LAMBDA d : Len(d.vertices) = 4)
ConvertedList(list) ==
  LET kept == FourVertexDetections(list)
  IN  [k \in 1 .. Len(kept) |-> Converted(kept[k])]

\* The detections that are text fragments: all but the whole-image
\* annotation.
TextFragments(list) == SelectSeq(list, LAMBDA d : ~d.full_text)

\* C23: conversion of raw OCR detections keeps exactly the detections that
\* have four vertices, in their input order, drops every detection with any
\* other vertex count without raising, and substitutes 0 for a vertex's
\* missing x or y coordinate.  The detections meant are the text fragments:
\* the whole-image annotation is skipped (C24).
\* It does not hold: the first detection is skipped whatever it is (C24), so
\* a four-vertex text fragment that comes first is not kept.
C23_KeepsFourVertexDetections ==
  (pc = "converted") =>
    LET out == ListValue(results[1])
    IN  /\ out = ConvertedList(TextFragments(raw))
        /\ \A k \in DOMAIN out :
             out[k].description = "O" =>
               out[k].bounding_poly = Rect(0, 0, 10, 4)

\* C24: conversion skips the first detection if it represents the whole-image
\* annotation; a first detection that is an ordinary four-vertex text
\* fragment is kept, first in the converted list, and is in the list
\* clean_text_annotations starts on.
\* It does not hold: the loop runs over raw_annotations[1:] whatever the
\* first detection is.
C24_FirstKeptUnlessWholeImage ==
  LET first_kept ==
        /\ Len(raw) >= 1
        /\ ~raw[1].full_text
        /\ Len(raw[1].vertices) = 4
      starts_with_first(list) ==
        /\ Len(list) >= 1
        /\ list[1] = Converted(raw[1])
  IN  /\ (pc = "converted" /\ first_kept) =>
           starts_with_first(ListValue(results[1]))
      /\ (pc = "converted" /\ Len(raw) >= 1 /\ raw[1].full_text) =>
           ListValue(results[1]) = ConvertedList(Tail(raw))
      /\ (pc = "pass1" /\ log = <<>> /\ first_kept) =>
           starts_with_first(ListValue(clean_annotations))

\* C25, as stated: every annotation in the list clean_text_annotations
\* returns has a non-empty description.
\* It does not hold for every input: an input annotation with the empty
\* description is returned as it is when nothing is merged with it.
C25_NonEmptyDescriptions ==
  (pc = "returned") =>
    \A k \in DOMAIN ListValue(results[call]) :
      ListValue(results[call])[k].description # ""

\* C25, amended: if every input description is non-empty, then every
\* annotation that exists, after any sequence of merges in either pass, and
\* every annotation of a returned list has a non-empty description;
\* descriptions need not be unique.
C25_NonEmptyPreserved ==
  (\A k \in DOMAIN raw : raw[k].description # "") =>
    /\ \A a \in DOMAIN ann_heap : ann_heap[a].description # ""
    /\ (pc = "returned") =>
         \A k \in DOMAIN ListValue(results[call]) :
           Len(ListValue(results[call])[k].description) > 0

\* The call on "Dragon", "X" and a second, distant "X" has made a merge and
\* has returned the two annotations "X" and "Dragon X".
C25_Witness ==
  /\ pc = "returned" /\ call = 1
  /\ raw = <<AnnA, AnnB, AnnX>>
  /\ log # <<>>
  /\ Len(list_heap[results[1]]) = 2
  /\ ListValue(results[1])[1].description = "X"
  /\ ListValue(results[1])[2].description = "Dragon X"

\* The displacement of the second box's center from the first box's center,
\* perpendicular to the direction of the first box (which is the average
\* direction when the two angles are equal), times 16: the sum of the four
\* vertices' heights in the first box's frame.
CenterDisplacement16(box1, box2) ==
  LET r == Frame(box2, box1)
  IN  Abs(r[1][2] + r[2][2] + r[3][2] + r[4][2])

\* The center of the second box is displaced by more than half of the
\* smaller of the two heights.
VerticalGateFails(box1, box2) ==
  CenterDisplacement16(box1, box2) >
    4 * Min2(dimensions2(box1)[2], dimensions2(box2)[2])

\* C26: boxes_overlap returns false whenever the displacement of the second
\* box's center from the first box's center, measured perpendicular to the
\* average of the two angles, exceeds half of the smaller of the two boxes'
\* heights, even when the two polygons intersect; it returns true only if the
\* angle gate, this vertical gate and the polygon intersection all pass, and
\* it returns true then.
C26_OverlapGates ==
  (Len(results) >= 1) =>
    (results[1] <=>
       /\ NormalisedAngleDifference(Box1, Box2) <= 5
       /\ ~VerticalGateFails(Box1, Box2)
       /\ Intersects(to_shapely_polygon(Box1), to_shapely_polygon(Box2)))

\* "X" (height 9, center at y = -0.5) and "Dragom" (height 5, center at
\* y = -3.5) have the same angle and their polygons intersect, but the
\* centers are 3 apart, more than 2.5: boxes_overlap has returned false.
C26_Witness ==
  /\ Len(results) >= 1
  /\ raw = <<AnnB, AnnG>>
  /\ NormalisedAngleDifference(Box1, Box2) = 0
  /\ Intersects(to_shapely_polygon(Box1), to_shapely_polygon(Box2))
  /\ CenterDisplacement16(Box1, Box2) = 48
  /\ Min2(dimensions2(Box1)[2], dimensions2(Box2)[2]) = 10
  /\ results[1] = FALSE

\* C27: when the angle gate and the vertical-overlap gate pass,
\* boxes_vertically_aligned returns true iff the horizontal gap in the first
\* box's frame (0 when the x-extents overlap or touch, otherwise the distance
\* between the nearer edges) is strictly less than half the average of the
\* two boxes' heights; a gap equal to half the average height is rejected,
\* and two boxes of zero height are never adjacent.
C27_GapBelowHalfAverageHeight ==
  (Len(results) >= 2) =>
    LET r1 == Frame(Box1, Box1)
        r2 == Frame(Box2, Box1)
    IN  /\ (/\ NormalisedAngleDifference(Box1, Box2) <= 5
            /\ 2 * SpanOverlap(r1, r2) >= Min2(Height(r1), Height(r2))) =>
             (results[2] <=> 4 * Gap(r1, r2) < Height(r1) + Height(r2))
        /\ 4 * Gap(r1, r2) = Height(r1) + Height(r2) => ~results[2]
        /\ (Height(r1) = 0 /\ Height(r2) = 0) => ~results[2]

\* "Hi" (height 3) ends 3 to the left of "X" (height 9) on the same line: the
\* gap equals half the average height, and boxes_vertically_aligned has
\* returned false.
C27_Witness ==
  /\ Len(results) >= 2
  /\ raw = <<AnnH, AnnB>>
  /\ NormalisedAngleDifference(Box1, Box2) = 0
  /\ 2 * SpanOverlap(Frame(Box1, Box1), Frame(Box2, Box1)) >= 12
  /\ Gap(Frame(Box1, Box1), Frame(Box2, Box1)) = 12
  /\ Height(Frame(Box1, Box1)) = 12
  /\ Height(Frame(Box2, Box1)) = 36
  /\ results[2] = FALSE

\* C30: for two boxes of equal rotation angle, boxes_overlap(A, B) equals
\* boxes_overlap(B, A) and boxes_vertically_aligned(A, B) equals
\* boxes_vertically_aligned(B, A); so the loop, which evaluates the predicate
\* on (annotations[i], annotations[j]) with i < j only, finds every pair that
\* matches in either order.
C30_PredicatesSymmetric ==
  (pc = "calculate_iou" /\ angle(Box1) = angle(Box2)) =>
    /\ results[1] = boxes_overlap(Box2, Box1)
    /\ results[2] = boxes_vertically_aligned(Box2, Box1)

\* "wide" (height 2) and "Dragom" (height 5, wider, center elsewhere) have
\* the same angle and different boxes; boxes_overlap is true of them in both
\* orders and boxes_vertically_aligned is true of them in both orders.
C30_Witness ==
  /\ pc = "calculate_iou"
  /\ raw = <<AnnW, AnnG>>
  /\ angle(Box1) = angle(Box2)
  /\ center4(Box1) # center4(Box2)
  /\ results[1] = TRUE
  /\ boxes_overlap(Box2, Box1) = TRUE
  /\ results[2] = TRUE
  /\ boxes_vertically_aligned(Box2, Box1) = TRUE

\* The working list of the first call after its first k merges, rebuilt from
\* the log: the input annotations are 1 .. Len(raw), the k-th merge builds
\* annotation Len(raw) + k.
RECURSIVE Replayed(_)
Replayed(k) ==
  IF k = 0 THEN [a \in 1 .. Len(raw) |-> a]
  ELSE Remaining(Replayed(k - 1), log[k][3], log[k][4]) \o <<Len(raw) + k>>

\* The two operands of the k-th merge, and the input annotations an
\* annotation stands for: itself, or those its operands stand for.
Operands(k) ==
  {Replayed(k - 1)[log[k][3] + 1], Replayed(k - 1)[log[k][4] + 1]}
RECURSIVE Members(_)
Members(a) ==
  IF a <= Len(raw) THEN {a}
  ELSE UNION {Members(b) : b \in Operands(a - Len(raw))}

\* C28: the output of clean_text_annotations partitions the input.  At every
\* point of the call, and so when it returns, every input annotation is
\* either in the list unchanged or was absorbed, through a chain of merges,
\* into exactly one annotation of the list; none contributes to two and none
\* is lost; the length of the list is the length of the input minus the
\* number of merges, and for a non-empty input it is between 1 and the length
\* of the input.
C28_OutputPartitionsInput ==
  (call = 1) =>
    LET list == list_heap[annotations]
        n == Len(raw)
        m == Len(log)
    IN  /\ list = Replayed(m)
        /\ \A a \in 1 .. n :
             Cardinality({k \in DOMAIN list : a \in Members(list[k])}) = 1
        /\ \A k \in DOMAIN list : list[k] <= n => AnnValue(list[k]) = raw[list[k]]
        /\ Len(list) = n - m
        /\ n >= 1 => (1 <= Len(list) /\ Len(list) <= n)

\* The call on "Quest", "Dragon" and "X" has returned two annotations:
\* "Quest", unchanged, and one that absorbed "Dragon" and "X".
C28_Witness ==
  /\ pc = "returned" /\ call = 1
  /\ raw = <<AnnQ, AnnA, AnnB>>
  /\ list_heap[results[1]] = <<1, 4>>
  /\ AnnValue(1) = AnnQ
  /\ Members(4) = {2, 3}

\* Twice the signed area of the triangle poly[k], poly[k + 1], p: its sign
\* tells the side of the k-th edge of poly the point p is on.
EdgeSide(poly, k, p) ==
  LET a == poly[k]
      b == poly[(k % 4) + 1]
  IN  (b[1] - a[1]) * (p[2] - a[2]) - (b[2] - a[2]) * (p[1] - a[1])

\* p is inside or on the convex quadrilateral poly: it is on the same side
\* of the four edges, or on them.
InsideOrOn(p, poly) ==
  \/ \A k \in 1..4 : EdgeSide(poly, k, p) >= 0
  \/ \A k \in 1..4 : EdgeSide(poly, k, p) <= 0

\* C29: merged boxes only grow.  After any sequence of merges in either pass,
\* every vertex of every input box lies inside or on the box of the
\* annotation of the list that absorbed that input, and every merge result
\* encloses the four vertices of both of its operands.
C29_MergedBoxesOnlyGrow ==
  (call = 1) =>
    /\ \A k \in DOMAIN list_heap[annotations] :
         \A a \in Members(list_heap[annotations][k]) :
           \A v \in 1..4 :
             InsideOrOn(raw[a].bounding_poly[v],
                        AnnValue(list_heap[annotations][k]).bounding_poly)
    /\ \A k \in 1 .. Len(log) :
         \A b \in Operands(k) :
           \A v \in 1..4 :
             InsideOrOn(AnnValue(b).bounding_poly[v],
                        AnnValue(Len(raw) + k).bounding_poly)

\* A chain of two merges, one in each pass: "Dragon" absorbed "rag" in the
\* overlap pass, the result absorbed "X" in the adjacency pass, and the box
\* of the one annotation left is larger than the box of each input.
C29_Witness ==
  /\ pc = "returned" /\ call = 1
  /\ raw = <<AnnA, AnnC, AnnB>>
  /\ Len(log) = 2
  /\ log[1][2] = "boxes_overlap"
  /\ log[2][2] = "boxes_vertically_aligned"
  /\ Len(list_heap[results[1]]) = 1
  /\ Members(list_heap[results[1]][1]) = {1, 2, 3}
  /\ \A a \in 1..3 :
       \E v \in 1..4 :
         ~InsideOrOn(AnnValue(list_heap[results[1]][1]).bounding_poly[v],
                     raw[a].bounding_poly)

====
